---- MODULE Spec2Model ----
(***************************************************************************)
(* Model of Cube_Engine/main.js: the stencil-tagging model loader, the     *)
(* scene assembler (build_with_custom_models and the six face loaders)     *)
(* and the per-frame animators.                                            *)
(*                                                                         *)
(* Numbers: positions are kept exactly, as integers in a stated unit       *)
(* (1/300 for the back face's z, 1/1000 for its rotation), where the       *)
(* JavaScript uses IEEE doubles.                                           *)
(*                                                                         *)
(* Specifications:                                                         *)
(*   Spec, SpecFair  setup, the assembler, the six face routines and the   *)
(*                   render loop, over the orders of load completion       *)
(*   SpecReject      the same, where model loads may also reject           *)
(*   SpecInterleave  the same, over more orders of load completion         *)
(*   SpecRight       animateRightFace frame after frame                    *)
(*   SpecModel       single calls of loadModel                             *)
(*   SpecBack(Fair)  animateBackFace frame after frame                     *)
(*   SpecLeft        animateLeftFace with every value of its draws         *)
(***************************************************************************)
EXTENDS Integers, Sequences, FiniteSets, TLC

VARIABLES
    lmPc,       \* loadModel call under study: "called" | "returned"
    lmArgs,     \* its arguments and the shape of the file it reads
    lmData,     \* data.scene.children[0] as parsed, before tagging
    lmRet       \* the object the call returned (NoObject until it returns)

lmVars == <<lmPc, lmArgs, lmData, lmRet>>

VARIABLES
    globalsDefined, \* whether rings, triangles, blocks, bars, hexagons and
                    \* diamonds resolve (main.js declares none of them)
    fileShape,      \* the shape of the model files the loader parses
    fileShare,      \* whether their meshes share materials
    orderBound,     \* how many preempting load completions this run may see
    pc,             \* where setup / build_with_custom_models stands
    scene,          \* ids of the nodes added to the scene
    impossibleCube, block, planet,    \* let impossibleCube, block, planet
    direction, factor,                \* let direction = 1; let factor = 1
    rings, triangles, blocks, bars, hexagons, diamonds,  \* face collections
    diamond,        \* loadTopFace's const diamond, held across its awaits
    faceSt,         \* per face routine: "idle" | "running" | "done" | "rejected"
    faceN,          \* per face routine: how many of its loads have resolved
    lastFace, preempts,   \* the order of load completions tried so far
    renders,        \* invocations of render()
    animated,       \* the animators the last render() invoked, in order
    raf,            \* a requestAnimationFrame(render) callback is pending
    calls,          \* invocations of animateLeftFace made outside render() (SpecLeft)
    uncaught        \* exceptions and rejections nobody handled

envVars   == <<globalsDefined, fileShape, fileShare, orderBound>>
cubeVars  == <<impossibleCube, block, planet>>
collVars  == <<rings, triangles, blocks, bars, hexagons, diamonds, diamond>>
animVars  == <<direction, factor>>
faceVars  == <<faceSt, faceN, lastFace, preempts>>
loopVars  == <<renders, animated, raf, calls>>
progVars  == <<pc, scene, cubeVars, collVars, animVars, faceVars, loopVars, uncaught>>

vars == <<lmVars, envVars, progVars>>

(***************************************************************************)
(* Bounds of the model                                                     *)
(***************************************************************************)
MaxRef == 8            \* stencil reference numbers 0..MaxRef are tried
MaxPreempt == 0        \* times a face's load resolves while the face whose load
                       \* resolved last is still unfinished
MaxInterleave == 1     \* the same, in SpecInterleave
MaxRenders == 2        \* invocations of render() followed
MaxCalls == 1          \* direct invocations of animateLeftFace followed
MaxRejects == 1        \* model loads that reject in one run (SpecReject)
RandDen == 4           \* in Spec, Math.random() returns n/RandDen, one n per frame

(***************************************************************************)
(* Materials and loaded objects                                            *)
(***************************************************************************)
NoObject == [shape |-> "none"]

\* A material as the loader hands it over: three.js's stencil defaults.
DefaultMat == [stencilWrite |-> FALSE, stencilRef |-> 0, stencilFunc |-> "Always"]

Shapes == {"simple", "compound"}

\* The material slots of a parsed object, named by child-index path:
\* "c0" is object.children[0].material, "c22" is
\* object.children[2].children[2].material, and so on. A file has every
\* slot the code dereferences for its shape (loadModel, line 172 and
\* loadBottomFace), and one more beside each, which the code never names.
Slots(shape) ==
    IF shape = "compound"
    THEN {"c0", "c00", "c01", "c10", "c11", "c20", "c21", "c22"}
    ELSE {"c0", "c1", "c10", "c11"}

\* Two meshes of a file may use one material: with share, the last slot the
\* loader writes to holds the same material as an earlier one.
MatOf(shape, share, slot) ==
    IF share /\ shape = "compound" /\ slot = "c22" THEN "c20"
    ELSE IF share /\ shape = "simple" /\ slot = "c1" THEN "c0"
    ELSE slot

MatIds(shape, share) == {MatOf(shape, share, s) : s \in Slots(shape)}

\* loader.loadAsync(path) followed by data.scene.children[0]
ParsedObject(shape, share) ==
    [shape |-> shape, share |-> share,
     mats  |-> [m \in MatIds(shape, share) |-> DefaultMat]]

Mat(o, slot) == o.mats[MatOf(o.shape, o.share, slot)]

SetStencilWrite(o, slot, v) ==
    [o EXCEPT !.mats[MatOf(o.shape, o.share, slot)].stencilWrite = v]
SetStencilRef(o, slot, v) ==
    [o EXCEPT !.mats[MatOf(o.shape, o.share, slot)].stencilRef = v]
SetStencilFunc(o, slot, v) ==
    [o EXCEPT !.mats[MatOf(o.shape, o.share, slot)].stencilFunc = v]

\* object.children[0].children.length !== 0
FirstChildHasChildren(o) == o.shape = "compound"

\* the compound branch of loadModel, statement by statement
TagCompound(o, refNum) ==
    LET o1 == SetStencilWrite(o, "c00", TRUE)
        o2 == SetStencilRef(o1, "c00", refNum)
        o3 == SetStencilFunc(o2, "c00", "Equal")
        o4 == SetStencilWrite(o3, "c20", TRUE)
        o5 == SetStencilRef(o4, "c22", refNum)
        o6 == SetStencilFunc(o5, "c22", "Equal")
    IN  o6

\* (mutant) the simple branch tagging the second direct child
TagSimple_SecondChild(o, refNum) ==
    LET o1 == SetStencilWrite(o, "c1", TRUE)
        o2 == SetStencilRef(o1, "c1", refNum)
        o3 == SetStencilFunc(o2, "c1", "Equal")
    IN  o3

\* the simple branch of loadModel
TagSimple(o, refNum) ==
    LET o1 == SetStencilWrite(o, "c0", TRUE)
        o2 == SetStencilRef(o1, "c0", refNum)
        o3 == SetStencilFunc(o2, "c0", "Equal")
    IN  o3

\* (mutant) loadModel tagging whatever needStencil says
loadModel_IgnoresFlag(data, needStencil, refNum) ==
    IF FirstChildHasChildren(data)
    THEN TagCompound(data, refNum)
    ELSE TagSimple(data, refNum)

\* loadModel(path, needStencil, refNum), applied to the parsed object
loadModel(data, needStencil, refNum) ==
    IF needStencil
    THEN IF FirstChildHasChildren(data)
         THEN TagCompound(data, refNum)
         ELSE TagSimple(data, refNum)
    ELSE data


(***************************************************************************)
(* Program constants                                                       *)
(***************************************************************************)
RingGroups    == 3
RingsPerGroup == 10
NumTriangles  == 20
BlockRows     == 5
BlockCols     == 5
BarGroups     == 3
BarsPerGroup  == 4
NumHexagons   == 8

Faces == {"front", "left", "right", "back", "top", "bottom"}

\* (mutant) loadBackFace's loop one iteration short
LoadsOf_ShortBack(f) ==
    CASE f = "front"  -> 1 + RingGroups * RingsPerGroup
      [] f = "left"   -> BlockRows * BlockCols
      [] f = "right"  -> BarGroups * BarsPerGroup
      [] f = "back"   -> NumTriangles - 1
      [] f = "top"    -> 1 + NumHexagons
      [] f = "bottom" -> 1

\* the awaited loadModel calls each face routine makes
LoadsOf(f) ==
    CASE f = "front"  -> 1 + RingGroups * RingsPerGroup
      [] f = "left"   -> BlockRows * BlockCols
      [] f = "right"  -> BarGroups * BarsPerGroup
      [] f = "back"   -> NumTriangles
      [] f = "top"    -> 1 + NumHexagons
      [] f = "bottom" -> 1

CameraId    == <<"camera", 0>>
PlaneMeshId == <<"PlaneMesh", 0>>
CubeId      == <<"cubeFrame", 0>>

\* await loadModel(path, true, refNum) on a file of the environment's shape
Loaded(refNum) == loadModel(ParsedObject(fileShape, fileShare), TRUE, refNum)

(***************************************************************************)
(* The nodes the face routines build. Units: a ring's position in thirds,  *)
(* its rotation in quarter turns (Math.PI/2); a triangle's scale in        *)
(* quarters, its z in 1/300 and its rotation.z in 1/1000; a block's x in   *)
(* halves and its scale in thirds; a bar's position in 1/20.               *)
(***************************************************************************)
\* the k-th ring of loadFrontFace: j = k \div 10 picks the branch, i = k % 10
RingNode(k, obj) ==
    LET j == k \div RingsPerGroup
        i == k % RingsPerGroup
    IN  [id |-> <<"front", k + 1>>, obj |-> obj,
         scale |-> IF j = 0 \/ j = 1 THEN 0 + i ELSE 2 + i,
         rotZ  |-> IF j = 0 THEN 1 ELSE IF j = 1 THEN -1 ELSE 0,
         rotX  |-> IF j = 0 \/ j = 1 THEN 0 ELSE 1,
         posX3 |-> IF j = 0 THEN (-i) * i ELSE IF j = 1 THEN i * i ELSE 0,
         posZ3 |-> IF j = 0 \/ j = 1 THEN 0 ELSE (-i) * i,
         turnX |-> 0, turnY |-> 0]

\* the i-th triangle of loadBackFace
TriangleNode(i, obj) ==
    [id |-> <<"back", i + 1>>, obj |-> obj,
     scale4 |-> 24 - i, z |-> -750, rz |-> 0]

\* the block of row i, column j of loadLeftFace
BlockNode(i, j, obj) ==
    [id |-> <<"left", i * BlockCols + j + 1>>, obj |-> obj,
     x2 |-> 2 * i - 3, y |-> -1, z |-> -2 + j, scale3 |-> 3]

\* the j-th bar of group i of loadRightFace
BarNode(i, j, obj) ==
    [id |-> <<"right", i * BarsPerGroup + j + 1>>, obj |-> obj,
     x |-> 0, y |-> 0, z |-> 0, scaleZ |-> 1, rotX |-> 0, rotY |-> 0]

\* the i-th hexagon of loadTopFace; its z position is coef * sin(angle), the
\* angle being 50 * rotation.y degrees with rotation.y in 1/100
HexagonNode(i, obj) ==
    [id |-> <<"top", i + 2>>, obj |-> obj,
     scale4 |-> 20, coef |-> 0, angle |-> 0, rotX |-> 0]

\* the diamond of loadTopFace: rotations in 1/100, kids its child hexagons
DiamondNode(obj) ==
    [id |-> <<"top", 1>>, obj |-> obj, scale |-> 1, rx |-> 0, ry |-> 0, kids |-> 0]

\* loadBottomFace after its load: scale 2 and the two extra materials tagged
PlanetNode(obj) ==
    LET o1 == SetStencilWrite(obj, "c10", TRUE)
        o2 == SetStencilRef(o1, "c10", 7)
        o3 == SetStencilFunc(o2, "c10", "Equal")
        o4 == SetStencilWrite(o3, "c11", TRUE)
        o5 == SetStencilRef(o4, "c11", 7)
        o6 == SetStencilFunc(o5, "c11", "Equal")
    IN  [id |-> <<"bottom", 1>>, obj |-> o6, scale |-> 2,
         rx |-> 0, ry |-> 0, rz |-> 0]

NoNode == [id |-> <<"none", 0>>]

(***************************************************************************)
(* The state after the module is evaluated; no function has run yet.       *)
(***************************************************************************)
\* The collections as the host page must define them for the face routines
\* to run: empty, bars with one empty group per bar group. main.js itself
\* declares none; where globalsDefined is false they do not exist and these
\* values are never read.
CollectionsInit ==
    /\ rings = <<>> /\ triangles = <<>> /\ blocks = <<>>
    /\ bars = [i \in 1..BarGroups |-> <<>>]
    /\ hexagons = <<>> /\ diamonds = <<>>

ProgInit ==
    /\ pc = "module"
    /\ scene = {}
    /\ impossibleCube = NoObject /\ block = NoObject /\ planet = NoNode
    /\ direction = 1 /\ factor = 1
    /\ CollectionsInit
    /\ diamond = NoNode
    /\ faceSt = [f \in Faces |-> "idle"]
    /\ faceN = [f \in Faces |-> 0]
    /\ lastFace = "none" /\ preempts = 0
    /\ renders = 0 /\ animated = <<>> /\ raf = FALSE /\ calls = 0
    /\ uncaught = {}

LmIdle ==
    /\ lmPc = "idle"
    /\ lmArgs = [shape |-> "none"]
    /\ lmData = NoObject
    /\ lmRet = NoObject

\* The environment of the assembler: the host page may or may not define the
\* collections, and the model files have one of the two shapes loadModel
\* tells apart (material sharing is explored by SpecModel).
EnvInit ==
    /\ globalsDefined \in BOOLEAN
    /\ fileShape \in Shapes
    /\ fileShare = FALSE
    /\ orderBound = MaxPreempt

Init == LmIdle /\ EnvInit /\ ProgInit

(***************************************************************************)
(* setup and build_with_custom_models                                      *)
(***************************************************************************)
\* setup(): camera and PlaneMesh are added, then PlaneMesh.scale(2,2) calls
\* a Vector3 as a function and throws; the lines after it never run.
setup ==
    /\ pc = "module"
    /\ scene' = scene \cup {CameraId, PlaneMeshId}
    /\ uncaught' = uncaught \cup {"TypeError: PlaneMesh.scale is not a function"}
    /\ pc' = "setupThrew"
    /\ UNCHANGED <<lmVars, envVars, cubeVars, collVars, animVars, faceVars, loopVars>>

\* build_with_custom_models() is called and runs to its first await
build_call ==
    /\ pc = "module"
    /\ pc' = "awaitCube"
    /\ UNCHANGED <<lmVars, envVars, scene, cubeVars, collVars, animVars,
                   faceVars, loopVars, uncaught>>

\* (mutant) the cube frame never added to the scene
SceneWithCube_Forgotten(sc) == sc

\* scene.add(impossibleCube)
SceneWithCube(sc) == sc \cup {CubeId}

\* The cube frame's load resolves: lines 170-177 up to the await of
\* Promise.all, whose argument calls the six face routines, each of which
\* runs to its first await.
build_cubeLoaded ==
    /\ pc = "awaitCube"
    /\ impossibleCube' = SetStencilWrite(Loaded(1), "c0", FALSE)
    /\ scene' = SceneWithCube(scene)
    /\ faceSt' = [f \in Faces |-> "running"]
    /\ pc' = "awaitAll"
    /\ UNCHANGED <<lmVars, envVars, block, planet, collVars, animVars,
                   faceN, lastFace, preempts, loopVars, uncaught>>

\* (mutant) Promise.allSettled: the barrier opens once every face routine
\* has ended, however it ended
PromiseAllFulfilled_Settled(st) == \A f \in Faces : st[f] \in {"done", "rejected"}

\* (mutant) a barrier that opens when the first face routine returns
PromiseAllFulfilled_Any(st) == \E f \in Faces : st[f] = "done"

\* Promise.all([...]) is fulfilled once every face routine has returned and
\* rejected as soon as one has thrown.
PromiseAllFulfilled(st) == \A f \in Faces : st[f] = "done"
PromiseAllRejected(st)  == \E f \in Faces : st[f] = "rejected"

\* The continuation of build_with_custom_models is a microtask: it runs
\* before the next load completion is delivered.
MicrotaskPending ==
    pc = "awaitAll" /\ (PromiseAllFulfilled(faceSt) \/ PromiseAllRejected(faceSt))

\* the await of Promise.all throws: the assembler's promise rejects, unhandled
build_rejected ==
    /\ pc = "awaitAll"
    /\ PromiseAllRejected(faceSt)
    /\ pc' = "rejected"
    /\ uncaught' = uncaught \cup {"unhandled rejection: build_with_custom_models"}
    /\ UNCHANGED <<lmVars, envVars, scene, cubeVars, collVars, animVars,
                   faceVars, loopVars>>

(***************************************************************************)
(* The face routines: one action per resumption after an awaited load.     *)
(***************************************************************************)
Preempting(f) ==
    lastFace # "none" /\ lastFace # f /\ faceSt[lastFace] = "running"

\* the load face f awaits may resolve now
Resolves(f) ==
    /\ faceSt[f] = "running"
    /\ ~MicrotaskPending
    /\ Preempting(f) => preempts < orderBound
    /\ lastFace' = f
    /\ preempts' = IF Preempting(f) THEN preempts + 1 ELSE preempts

\* face f has had another load resolve and went on to its next await or end
Advance(f) ==
    /\ faceN' = [faceN EXCEPT ![f] = @ + 1]
    /\ faceSt' = [faceSt EXCEPT ![f] =
                     IF faceN[f] + 1 = LoadsOf(f) THEN "done" ELSE "running"]

\* face f threw: an undeclared collection was referenced
Reject(f, what) ==
    /\ faceN' = [faceN EXCEPT ![f] = @ + 1]
    /\ faceSt' = [faceSt EXCEPT ![f] = "rejected"]
    /\ uncaught' = uncaught \cup {what}

loadFrontFace ==
    /\ Resolves("front")
    /\ IF faceN["front"] = 0
       THEN /\ block' = Loaded(2)
            /\ scene' = scene \cup {<<"front", 0>>}
            /\ Advance("front")
            /\ UNCHANGED <<rings, uncaught>>
       ELSE /\ scene' = scene \cup {<<"front", faceN["front"]>>}
            /\ IF globalsDefined
               THEN /\ rings' = Append(rings, RingNode(faceN["front"] - 1, Loaded(2)))
                    /\ Advance("front")
                    /\ UNCHANGED uncaught
               ELSE /\ Reject("front", "ReferenceError: rings is not defined")
                    /\ UNCHANGED rings
            /\ UNCHANGED block
    /\ UNCHANGED <<lmVars, envVars, pc, impossibleCube, planet, animVars,
                   triangles, blocks, bars, hexagons, diamonds, diamond, loopVars>>

loadBackFace ==
    /\ Resolves("back")
    /\ scene' = scene \cup {<<"back", faceN["back"] + 1>>}
    /\ IF globalsDefined
       THEN /\ triangles' = Append(triangles, TriangleNode(faceN["back"], Loaded(5)))
            /\ Advance("back")
            /\ UNCHANGED uncaught
       ELSE /\ Reject("back", "ReferenceError: triangles is not defined")
            /\ UNCHANGED triangles
    /\ UNCHANGED <<lmVars, envVars, pc, cubeVars, animVars,
                   rings, blocks, bars, hexagons, diamonds, diamond, loopVars>>

\* (mutant) line 289 without its const: the load is assigned to the
\* module's block, the variable loadFrontFace assigns too
ModuleBlockAfterLeft_Assigned(b, loaded) == loaded

\* line 289 declares a block of its own (const block), so the module's
\* block b keeps its value when loadLeftFace's load arrives
ModuleBlockAfterLeft(b, loaded) == b

loadLeftFace ==
    /\ Resolves("left")
    /\ block' = ModuleBlockAfterLeft(block, Loaded(3))
    /\ IF globalsDefined
       THEN /\ blocks' = Append(blocks,
                            BlockNode(faceN["left"] \div BlockCols,
                                      faceN["left"] % BlockCols, Loaded(3)))
            /\ scene' = scene \cup {<<"left", faceN["left"] + 1>>}
            /\ Advance("left")
            /\ UNCHANGED uncaught
       ELSE /\ Reject("left", "ReferenceError: blocks is not defined")
            /\ UNCHANGED <<blocks, scene>>
    /\ UNCHANGED <<lmVars, envVars, pc, impossibleCube, planet, animVars,
                   rings, triangles, bars, hexagons, diamonds, diamond, loopVars>>

loadRightFace ==
    /\ Resolves("right")
    /\ IF globalsDefined
       THEN /\ bars' = [bars EXCEPT ![faceN["right"] \div BarsPerGroup + 1] =
                           Append(@, BarNode(faceN["right"] \div BarsPerGroup,
                                             faceN["right"] % BarsPerGroup, Loaded(4)))]
            /\ scene' = scene \cup {<<"right", faceN["right"] + 1>>}
            /\ Advance("right")
            /\ UNCHANGED uncaught
       ELSE /\ Reject("right", "ReferenceError: bars is not defined")
            /\ UNCHANGED <<bars, scene>>
    /\ UNCHANGED <<lmVars, envVars, pc, cubeVars, animVars,
                   rings, triangles, blocks, hexagons, diamonds, diamond, loopVars>>

loadTopFace ==
    /\ Resolves("top")
    /\ IF faceN["top"] = 0
       THEN /\ diamond' = DiamondNode(Loaded(6))
            /\ Advance("top")
            /\ UNCHANGED <<hexagons, diamonds, scene, uncaught>>
       ELSE IF globalsDefined
       THEN /\ hexagons' = Append(hexagons, HexagonNode(faceN["top"] - 1, Loaded(6)))
            /\ Advance("top")
            /\ IF faceN["top"] = NumHexagons
               THEN \* the loop is over: lines 363-365 run in the same turn
                    /\ diamond' = [diamond EXCEPT !.kids = @ + 1, !.scale = 2]
                    /\ diamonds' = Append(diamonds, diamond')
                    /\ scene' = scene \cup {diamond.id}
               ELSE /\ diamond' = [diamond EXCEPT !.kids = @ + 1]
                    /\ UNCHANGED <<diamonds, scene>>
            /\ UNCHANGED uncaught
       ELSE /\ Reject("top", "ReferenceError: hexagons is not defined")
            /\ UNCHANGED <<hexagons, diamonds, diamond, scene>>
    /\ UNCHANGED <<lmVars, envVars, pc, cubeVars, animVars,
                   rings, triangles, blocks, bars, loopVars>>

loadBottomFace ==
    /\ Resolves("bottom")
    /\ planet' = PlanetNode(Loaded(7))
    /\ scene' = scene \cup {<<"bottom", 1>>}
    /\ Advance("bottom")
    /\ UNCHANGED <<lmVars, envVars, pc, impossibleCube, block, animVars,
                   collVars, loopVars, uncaught>>

(***************************************************************************)
(* Loads that reject: loader.loadAsync(path) fails, the await in loadModel *)
(* throws, loadModel's promise rejects and so does the await on it.        *)
(***************************************************************************)
LoadRejection(who) == "rejected load: " \o who

\* the routines one of whose loads has rejected so far
RejectedLoads == {who \in Faces \cup {"cubeFrame"} : LoadRejection(who) \in uncaught}

\* The cube frame's load rejects: the await of line 170 throws, nothing
\* catches it, and build_with_custom_models ends there.
build_cubeRejected ==
    /\ pc = "awaitCube"
    /\ Cardinality(RejectedLoads) < MaxRejects
    /\ pc' = "rejected"
    /\ uncaught' = uncaught \cup {LoadRejection("cubeFrame"),
                                  "unhandled rejection: build_with_custom_models"}
    /\ UNCHANGED <<lmVars, envVars, scene, cubeVars, collVars, animVars,
                   faceVars, loopVars>>

\* The load a face routine awaits rejects: the routine throws out of its
\* loop and its promise rejects. The load that failed resolved nothing, so
\* faceN stays, and the routine issues no further load.
loadRejected ==
    /\ Cardinality(RejectedLoads) < MaxRejects
    /\ \E f \in Faces :
          /\ Resolves(f)
          /\ faceSt' = [faceSt EXCEPT ![f] = "rejected"]
          /\ uncaught' = uncaught \cup {LoadRejection(f)}
    /\ UNCHANGED <<lmVars, envVars, pc, scene, cubeVars, collVars, animVars,
                   faceN, loopVars>>

(***************************************************************************)
(* The animators, as functions of the collections they update              *)
(***************************************************************************)
\* rotateX(0.01 + x), rotateY(-0.01 + x), x growing by 0.001 per ring:
\* turnX and turnY add up the two angles, in 1/1000
animateFrontFace(rs) ==
    [item \in 1..Len(rs) |->
        [rs[item] EXCEPT !.turnX = @ + 10 + (item - 1),
                         !.turnY = @ - 10 + (item - 1)]]

\* (mutant) the iteration testing the first triangle instead of the last
BackStep_TestsFirst(ts, dir, i) ==
    LET moved == [ts EXCEPT ![i + 1].z  = @ + i * dir,
                            ![i + 1].rz = @ + i * dir]
        lastZ == moved[1].z
    IN  [triangles |-> moved,
         direction |-> IF lastZ > 25 * 300 THEN -4
                       ELSE IF 2 * lastZ < (-17) * 300 THEN 1
                       ELSE dir]

\* (mutant) the iteration testing the middle triangle instead of the last
BackStep_TestsMiddle(ts, dir, i) ==
    LET moved == [ts EXCEPT ![i + 1].z  = @ + i * dir,
                            ![i + 1].rz = @ + i * dir]
        lastZ == moved[Len(moved) \div 2 + 1].z
    IN  [triangles |-> moved,
         direction |-> IF lastZ > 25 * 300 THEN -4
                       ELSE IF 2 * lastZ < (-17) * 300 THEN 1
                       ELSE dir]

\* (mutant) the iteration turning back at 20 instead of 25
BackStep_EarlyFlip(ts, dir, i) ==
    LET moved == [ts EXCEPT ![i + 1].z  = @ + i * dir,
                            ![i + 1].rz = @ + i * dir]
        lastZ == moved[Len(moved)].z
    IN  [triangles |-> moved,
         direction |-> IF lastZ > 20 * 300 THEN -4
                       ELSE IF 2 * lastZ < (-17) * 300 THEN 1
                       ELSE dir]

\* One iteration of the loop of animateBackFace, index i (0-based, as in
\* the source): triangle i moves and turns, then the last triangle is tested.
BackStep(ts, dir, i) ==
    LET moved == [ts EXCEPT ![i + 1].z  = @ + i * dir,
                            ![i + 1].rz = @ + i * dir]
        lastZ == moved[Len(moved)].z
    IN  [triangles |-> moved,
         direction |-> IF lastZ > 25 * 300 THEN -4
                       ELSE IF 2 * lastZ < (-17) * 300 THEN 1
                       ELSE dir]

\* The loop from index i on. (The iteration's result is bound through a
\* one-element set so that it is computed once.)
RECURSIVE BackLoop(_, _, _)
BackLoop(ts, dir, i) ==
    IF i >= Len(ts) THEN [triangles |-> ts, direction |-> dir]
    ELSE CHOOSE r \in {BackLoop(m.triangles, m.direction, i + 1) :
                          m \in {BackStep(ts, dir, i)}} : TRUE

animateBackFace(ts, dir) == BackLoop(ts, dir, 0)

\* the same loop left after its iterations i .. n-1
RECURSIVE BackPrefix(_, _, _, _)
BackPrefix(ts, dir, i, n) ==
    IF i >= n THEN [triangles |-> ts, direction |-> dir]
    ELSE CHOOSE r \in {BackPrefix(m.triangles, m.direction, i + 1, n) :
                          m \in {BackStep(ts, dir, i)}} : TRUE

\* (mutant) animateLeftFace moving the block after the drawn one as well
animateLeftFace_TwoBlocks(bs, int, fac, index) ==
    IF int % 2 # 0
    THEN [bs EXCEPT ![index + 1].y = int * (-1), ![index + 1].scale3 = fac]
    ELSE [bs EXCEPT ![index + 1].y = int, ![((index + 1) % Len(bs)) + 1].y = int]

\* int, fac and index are the three floored draws of animateLeftFace:
\* Math.floor(Math.random()*4), Math.floor(Math.random()*10) (the local
\* factor is fac/3) and Math.floor(Math.random()*25)
animateLeftFace(bs, int, fac, index) ==
    IF int % 2 # 0
    THEN [bs EXCEPT ![index + 1].y = int * (-1), ![index + 1].scale3 = fac]
    ELSE [bs EXCEPT ![index + 1].y = int]

\* (mutant) the three tests strict: a bar exactly at randDist moves on
MoveBar_StrictTest(i, bar, d) ==
    LET b == [bar EXCEPT !.scaleZ = 10]
    IN  IF i = 0
        THEN IF b.z > 20 * d.randDist
             THEN [b EXCEPT !.x = 20 * d.randX, !.y = 20 * d.randY,
                            !.z = (-20) * d.randDist]
             ELSE [b EXCEPT !.z = @ + d.speed]
        ELSE IF i = 1
        THEN LET r == [b EXCEPT !.rotX = 1]
             IN  IF r.y > 20 * d.randDist
                 THEN [r EXCEPT !.x = 20 * d.randX, !.y = (-20) * d.randDist,
                                !.z = 20 * d.randZ]
                 ELSE [r EXCEPT !.y = @ + d.speed]
        ELSE LET r == [b EXCEPT !.rotY = 1]
             IN  IF r.x < (-20) * d.randDist
                 THEN [r EXCEPT !.x = 20 * d.randDist, !.y = 20 * d.randY,
                                !.z = 20 * d.randZ]
                 ELSE [r EXCEPT !.x = @ - d.speed]

\* One bar of animateRightFace. d holds the floored draws of this bar:
\* inverse in 0..3, u1, u2, u3 = Math.floor(Math.random()*3*factor),
\* randDist in 10..24 and speed in 1/20.
MoveBar(i, bar, d) ==
    LET b == [bar EXCEPT !.scaleZ = 10]
    IN  IF i = 0
        THEN IF b.z >= 20 * d.randDist
             THEN [b EXCEPT !.x = 20 * d.randX, !.y = 20 * d.randY,
                            !.z = (-20) * d.randDist]
             ELSE [b EXCEPT !.z = @ + d.speed]
        ELSE IF i = 1
        THEN LET r == [b EXCEPT !.rotX = 1]
             IN  IF r.y >= 20 * d.randDist
                 THEN [r EXCEPT !.x = 20 * d.randX, !.y = (-20) * d.randDist,
                                !.z = 20 * d.randZ]
                 ELSE [r EXCEPT !.y = @ + d.speed]
        ELSE IF i = 2
        THEN LET r == [b EXCEPT !.rotY = 1]
             IN  IF r.x <= (-20) * d.randDist
                 THEN [r EXCEPT !.x = 20 * d.randDist, !.y = 20 * d.randY,
                                !.z = 20 * d.randZ]
                 ELSE [r EXCEPT !.x = @ - d.speed]
        ELSE b

\* draws[i][j] are the draws made for bar j of group i
animateRightFace(bs, draws) ==
    [i \in 1..Len(bs) |->
        [j \in 1..Len(bs[i]) |-> MoveBar(i - 1, bs[i][j], draws[i][j])]]

\* diamonds[0] turns; the hexagons are placed from its rotation.y as it was
\* on entry (distance) and from its new rotation.x
AnimatedDiamond(dm) == [dm EXCEPT !.rx = @ + 1, !.ry = @ - 1]

AnimatedHexagons(hs, dm) ==
    [k \in 1..Len(hs) |->
        [hs[k] EXCEPT !.scale4 = 8 - (k - 1),
                      !.coef   = (k - 1) * 2 * (IF (k - 1) % 2 = 0 THEN -1 ELSE 1),
                      !.angle  = dm.ry,
                      !.rotX   = -(dm.rx + 1)]]

\* the module-level factor after the loop of animateTopFace
FactorAfter(hs, fct) ==
    IF Len(hs) = 0 THEN fct ELSE IF (Len(hs) - 1) % 2 = 0 THEN -1 ELSE 1

\* rotation.x += 0.005, rotation.z += 0.005, rotation.y -= 0.005, in 1/200
animateBottomFace(pl) == [pl EXCEPT !.rx = @ + 1, !.rz = @ + 1, !.ry = @ - 1]

(***************************************************************************)
(* Math.random() as n/RandDen, and the floored draws made from it          *)
(***************************************************************************)
Floor(n, k) == (n * k) \div RandDen

\* floor(Math.random()*3*factor) with factor -1 or 1
FloorSigned(n, sign) ==
    IF sign = 1 THEN Floor(n, 3) ELSE -((n * 3 + RandDen - 1) \div RandDen)

BarDraw(n) ==
    LET inverse == Floor(n, 4)
        sign    == IF inverse % 2 = 0 THEN -1 ELSE 1
    IN  [inverse |-> inverse,
         randX |-> FloorSigned(n, sign), randY |-> FloorSigned(n, sign),
         randZ |-> FloorSigned(n, sign),
         randDist |-> Floor(n, 15) + 10, speed |-> Floor(n, 10)]

(***************************************************************************)
(* render(): the animators run in order; the first that throws ends the    *)
(* frame, and no next frame is requested.                                  *)
(***************************************************************************)
\* which animator throws, 0 if none: an undeclared collection, an index
\* past the end of blocks, an empty diamonds, an unset planet
ThrowsAt(index) ==
    IF ~globalsDefined THEN 1
    ELSE IF index >= Len(blocks) THEN 3
    ELSE IF Len(diamonds) = 0 THEN 5
    ELSE IF planet = NoNode THEN 6
    ELSE 0

AnimatorNames ==
    <<"animateFrontFace", "animateBackFace", "animateLeftFace",
      "animateRightFace", "animateTopFace", "animateBottomFace">>

\* the animators render() calls, in order
RenderCalls == AnimatorNames

\* requestAnimationFrame(render) at the end of render()
RequestsNextFrame == TRUE

\* n is the numerator of this frame's Math.random() values
render(n) ==
    LET int   == Floor(n, 4)
        fac   == Floor(n, 10)
        index == Floor(n, 25)
        t     == ThrowsAt(index)
        ran(k) == t = 0 \/ k < t          \* animator k ran to its end
        back  == animateBackFace(triangles, direction)
    IN  /\ renders' = renders + 1
        /\ animated' = IF t = 0 THEN RenderCalls ELSE SubSeq(RenderCalls, 1, t)
        /\ raf' = (t = 0 /\ RequestsNextFrame)
        /\ calls' = calls
        /\ uncaught' = IF t = 0 THEN uncaught
                       ELSE uncaught \cup {"render threw in " \o AnimatorNames[t]}
        /\ rings' = IF ran(1) THEN animateFrontFace(rings) ELSE rings
        /\ triangles' = IF ran(2) THEN back.triangles ELSE triangles
        /\ direction' = IF ran(2) THEN back.direction ELSE direction
        /\ blocks' = IF ran(3) THEN animateLeftFace(blocks, int, fac, index) ELSE blocks
        /\ bars' = IF ran(4)
                   THEN animateRightFace(bars,
                            [i \in 1..Len(bars) |-> [j \in 1..Len(bars[i]) |-> BarDraw(n)]])
                   ELSE bars
        /\ diamonds' = IF ran(5) THEN [diamonds EXCEPT ![1] = AnimatedDiamond(@)]
                       ELSE diamonds
        /\ hexagons' = IF ran(5) THEN AnimatedHexagons(hexagons, diamonds[1]) ELSE hexagons
        /\ factor' = IF ran(5) THEN FactorAfter(hexagons, factor) ELSE factor
        /\ planet' = IF ran(6) THEN animateBottomFace(planet) ELSE planet

\* Promise.all is fulfilled: build_with_custom_models goes on to render()
build_render ==
    /\ pc = "awaitAll"
    /\ PromiseAllFulfilled(faceSt)
    /\ pc' = "built"
    /\ \E n \in 0..(RandDen - 1) : render(n)
    /\ UNCHANGED <<lmVars, envVars, scene, impossibleCube, block, diamond, faceVars>>

\* the browser runs the requested frame callback
frame ==
    /\ raf
    /\ renders < MaxRenders
    /\ \E n \in 0..(RandDen - 1) : render(n)
    /\ UNCHANGED <<lmVars, envVars, pc, scene, impossibleCube, block, diamond, faceVars>>

Next ==
    \/ setup
    \/ build_call
    \/ build_cubeLoaded
    \/ build_rejected
    \/ build_render
    \/ loadFrontFace
    \/ loadLeftFace
    \/ loadRightFace
    \/ loadBackFace
    \/ loadTopFace
    \/ loadBottomFace
    \/ frame

Spec == Init /\ [][Next]_vars

\* Every awaited load resolves in the end and every runnable continuation and
\* requested frame is run: the event loop starves nothing.
Fairness ==
    /\ WF_vars(build_cubeLoaded) /\ WF_vars(build_rejected) /\ WF_vars(build_render)
    /\ WF_vars(loadFrontFace) /\ WF_vars(loadLeftFace) /\ WF_vars(loadRightFace)
    /\ WF_vars(loadBackFace) /\ WF_vars(loadTopFace) /\ WF_vars(loadBottomFace)
    /\ WF_vars(frame)

SpecFair == Init /\ [][Next]_vars /\ Fairness

\* the same program where model loads may also reject
NextReject ==
    \/ Next
    \/ build_cubeRejected
    \/ loadRejected

SpecReject == Init /\ [][NextReject]_vars

\* the same program on compound model files, with more orders of load
\* completion: the loads of different faces may resolve interleaved
InterleaveInit ==
    /\ LmIdle
    /\ globalsDefined \in BOOLEAN
    /\ fileShape = "compound"
    /\ fileShare = FALSE
    /\ orderBound = MaxInterleave
    /\ ProgInit

SpecInterleave == InterleaveInit /\ [][Next]_vars

(***************************************************************************)
(* The collections as the six face routines leave them                     *)
(***************************************************************************)
LoadedRings ==
    [k \in 1..(RingGroups * RingsPerGroup) |-> RingNode(k - 1, Loaded(2))]
LoadedTriangles ==
    [k \in 1..NumTriangles |-> TriangleNode(k - 1, Loaded(5))]
LoadedBlocks ==
    [k \in 1..(BlockRows * BlockCols) |->
        BlockNode((k - 1) \div BlockCols, (k - 1) % BlockCols, Loaded(3))]
LoadedBars ==
    [i \in 1..BarGroups |-> [j \in 1..BarsPerGroup |-> BarNode(i - 1, j - 1, Loaded(4))]]
LoadedHexagons ==
    [k \in 1..NumHexagons |-> HexagonNode(k - 1, Loaded(6))]
LoadedDiamond ==
    [DiamondNode(Loaded(6)) EXCEPT !.kids = NumHexagons, !.scale = 2]

\* the program once the six face routines have returned, before render()
LoadedProgram ==
    /\ pc = "awaitAll"
    /\ scene = {CubeId}
               \cup {<<"front", k>> : k \in 0..(RingGroups * RingsPerGroup)}
               \cup {<<"back", k>> : k \in 1..NumTriangles}
               \cup {<<"left", k>> : k \in 1..(BlockRows * BlockCols)}
               \cup {<<"right", k>> : k \in 1..(BarGroups * BarsPerGroup)}
               \cup {<<"top", 1>>, <<"bottom", 1>>}
    /\ impossibleCube = SetStencilWrite(Loaded(1), "c0", FALSE)
    /\ block = Loaded(2)
    /\ planet = PlanetNode(Loaded(7))
    /\ direction = 1 /\ factor = 1
    /\ rings = LoadedRings /\ triangles = LoadedTriangles /\ blocks = LoadedBlocks
    /\ bars = LoadedBars /\ hexagons = LoadedHexagons
    /\ diamonds = <<LoadedDiamond>> /\ diamond = LoadedDiamond
    /\ faceSt = [f \in Faces |-> "done"]
    /\ faceN = [f \in Faces |-> LoadsOf(f)]
    /\ renders = 0 /\ animated = <<>> /\ raf = FALSE /\ calls = 0
    /\ uncaught = {}

LoadedInit ==
    /\ LmIdle
    /\ globalsDefined = TRUE
    /\ fileShape = "simple"
    /\ fileShare = FALSE
    /\ orderBound = MaxPreempt
    /\ lastFace = "bottom" /\ preempts = 0
    /\ LoadedProgram

(***************************************************************************)
(* SpecBack: animateBackFace, frame after frame, on the loaded back face   *)
(***************************************************************************)
BackFrame ==
    /\ triangles' = animateBackFace(triangles, direction).triangles
    /\ direction' = animateBackFace(triangles, direction).direction
    /\ UNCHANGED <<lmVars, envVars, pc, scene, cubeVars, rings, blocks, bars,
                   hexagons, diamonds, diamond, factor, faceVars, loopVars,
                   uncaught>>

SpecBack == LoadedInit /\ [][BackFrame]_vars

\* frames keep coming: requestAnimationFrame never gives up
SpecBackFair == LoadedInit /\ [][BackFrame]_vars /\ WF_vars(BackFrame)

(***************************************************************************)
(* SpecLeft: animateLeftFace on the loaded left face, with every value     *)
(* the three floored draws can take                                        *)
(***************************************************************************)
LeftFrame ==
    /\ calls < MaxCalls
    /\ \E int \in 0..3, fac \in 0..9, index \in 0..(BlockRows * BlockCols - 1) :
          blocks' = animateLeftFace(blocks, int, fac, index)
    /\ calls' = calls + 1
    /\ UNCHANGED <<lmVars, envVars, pc, scene, cubeVars, rings, triangles, bars,
                   hexagons, diamonds, diamond, animVars, faceVars, renders,
                   animated, raf, uncaught>>

SpecLeft == LoadedInit /\ [][LeftFrame]_vars

(***************************************************************************)
(* SpecRight: animateRightFace, frame after frame, on the loaded right     *)
(* face. A bar's move depends on its own position and its own draws only,  *)
(* so the twelve bars are given the same draws in a frame: each bar still  *)
(* takes every path its draws allow.                                       *)
(***************************************************************************)
\* Math.floor(Math.random()*3*factor): 0..2 when factor is 1, -3..0 when it
\* is -1; the two extremes are tried, one for each sign of factor
SideDraws == {-3, 2}

\* speed = Math.floor(Math.random()*10)/20, in 1/20: 0..9, of which the
\* ends, the smallest move and a middle one are tried
SpeedDraws == {0, 1, 5, 9}

\* the floored draws of one bar, with every value of
\* randDist = Math.floor(Math.random()*15)+10
RightDraws ==
    {[inverse |-> IF s < 0 THEN 0 ELSE 1, randX |-> s, randY |-> s, randZ |-> s,
      randDist |-> rd, speed |-> sp] :
        s \in SideDraws, rd \in 10..24, sp \in SpeedDraws}

RightFrame ==
    /\ \E d \in RightDraws :
          bars' = animateRightFace(bars,
                      [i \in 1..Len(bars) |-> [j \in 1..Len(bars[i]) |-> d]])
    /\ UNCHANGED <<lmVars, envVars, pc, scene, cubeVars, rings, triangles, blocks,
                   hexagons, diamonds, diamond, animVars, faceVars, loopVars,
                   uncaught>>

SpecRight == LoadedInit /\ [][RightFrame]_vars

(***************************************************************************)
(* SpecModel: single calls of loadModel on every shape and argument        *)
(***************************************************************************)
LmArgSet ==
    [shape : Shapes, share : BOOLEAN, needStencil : BOOLEAN, refNum : 0..MaxRef]

LmInit ==
    /\ lmPc = "called"
    /\ lmArgs \in LmArgSet
    /\ lmData = ParsedObject(lmArgs.shape, lmArgs.share)
    /\ lmRet = NoObject
    /\ globalsDefined = FALSE /\ fileShape = lmArgs.shape /\ fileShare = lmArgs.share
    /\ orderBound = MaxPreempt
    /\ ProgInit

\* the awaited load resolves and loadModel runs to its return
LmReturn ==
    /\ lmPc = "called"
    /\ lmRet' = loadModel(lmData, lmArgs.needStencil, lmArgs.refNum)
    /\ lmPc' = "returned"
    /\ UNCHANGED <<lmArgs, lmData, envVars, progVars>>

\* the next call: a new loader, a newly parsed object of the same file
LmCall ==
    /\ lmPc = "returned"
    /\ \E a \in LmArgSet :
         /\ a.shape = lmArgs.shape /\ a.share = lmArgs.share
         /\ lmArgs' = a
         /\ lmData' = ParsedObject(a.shape, a.share)
    /\ lmRet' = NoObject
    /\ lmPc' = "called"
    /\ UNCHANGED <<envVars, progVars>>

LmNext == LmReturn \/ LmCall

SpecModel == LmInit /\ [][LmNext]_vars

(***************************************************************************)
(* Properties                                                              *)
(***************************************************************************)
\* The face routines of Spec leave exactly the state the per-face
\* specifications start from.
LoadedAsBuilt ==
    (globalsDefined /\ pc = "awaitAll" /\ PromiseAllFulfilled(faceSt)) => LoadedProgram

LastZ == triangles[Len(triangles)].z

\* the materials loadModel's return value differs in from the parsed object
ChangedMats == {m \in DOMAIN lmData.mats : lmRet.mats[m] # lmData.mats[m]}

FullyTagged(m, refNum) ==
    m.stencilWrite = TRUE /\ m.stencilRef = refNum /\ m.stencilFunc = "Equal"

\* C1: render() is never invoked before all six face routines have run to
\* completion, whatever the order in which the loads resolve.
C1_RenderAfterAllFaces ==
    (renders > 0 \/ animated # <<>> \/ raf) => \A f \in Faces : faceSt[f] = "done"

C1_Witness ==
    /\ renders > 0
    /\ animated = AnimatorNames
    /\ lastFace = "top"
    /\ \A f \in Faces : faceSt[f] = "done"

\* C2: from setup() on, the render loop is eventually started, and from then
\* on every frame invokes all six animators and schedules the next frame.
C2_RenderLoopStarts ==
    /\ (CameraId \in scene) ~> (renders > 0)
    /\ [](renders > 0 => (animated = AnimatorNames /\ raf))

\* C3: from the first animator invocation on the collections hold 30 rings
\* and the filled-cube block, 20 triangles, 25 blocks, 3 groups of 4 bars,
\* one diamond with 8 hexagons and one planet, the same nodes throughout.
C3_CollectionsComplete ==
    (renders > 0 \/ animated # <<>>) =>
        /\ Len(rings) = 30 /\ block # NoObject
        /\ {rings[k].id : k \in 1..Len(rings)} = {<<"front", k>> : k \in 1..30}
        /\ Len(triangles) = 20
        /\ {triangles[k].id : k \in 1..Len(triangles)} = {<<"back", k>> : k \in 1..20}
        /\ Len(blocks) = 25
        /\ {blocks[k].id : k \in 1..Len(blocks)} = {<<"left", k>> : k \in 1..25}
        /\ Len(bars) = 3
        /\ \A i \in 1..Len(bars) :
              /\ Len(bars[i]) = 4
              /\ {bars[i][j].id : j \in 1..4} = {<<"right", 4 * (i - 1) + j>> : j \in 1..4}
        /\ Len(diamonds) = 1 /\ diamonds[1].id = <<"top", 1>> /\ diamonds[1].kids = 8
        /\ Len(hexagons) = 8
        /\ {hexagons[k].id : k \in 1..Len(hexagons)} = {<<"top", k + 1>> : k \in 1..8}
        /\ planet # NoNode /\ planet.id = <<"bottom", 1>>

C3_Witness ==
    /\ renders >= 2
    /\ Len(rings) = 30 /\ Len(blocks) = 25
    /\ rings[30].turnX > 0

\* C4: the cube frame is loaded and in the scene before any face routine
\* has begun.
C4_CubeBeforeFaces ==
    (\E f \in Faces : faceSt[f] # "idle" \/ faceN[f] > 0) =>
        (impossibleCube # NoObject /\ CubeId \in scene)

C4_Witness ==
    /\ \A f \in Faces : faceSt[f] = "running" /\ faceN[f] = 0
    /\ CubeId \in scene

\* C5: loadModel(path, true, refNum) on a compound model changes exactly two
\* materials, both ending with stencil write on, stencilRef = refNum and
\* the Equal function.
C5_CompoundTagsTwo ==
    (lmPc = "returned" /\ lmArgs.needStencil /\ lmArgs.shape = "compound") =>
        /\ Cardinality(ChangedMats) = 2
        /\ \A m \in ChangedMats : FullyTagged(lmRet.mats[m], lmArgs.refNum)

\* C6: loadModel(path, true, refNum) on a simple model changes exactly one
\* material, the first direct child's, which ends with stencil write on,
\* stencilRef = refNum and the Equal function.
C6_SimpleTagsOne ==
    (lmPc = "returned" /\ lmArgs.needStencil /\ lmArgs.shape = "simple") =>
        /\ ChangedMats = {MatOf("simple", lmArgs.share, "c0")}
        /\ FullyTagged(Mat(lmRet, "c0"), lmArgs.refNum)
        /\ DOMAIN lmRet.mats = DOMAIN lmData.mats

C6_Witness ==
    /\ lmPc = "returned" /\ lmArgs.needStencil /\ lmArgs.shape = "simple"
    /\ ~lmArgs.share /\ lmArgs.refNum = 3
    /\ Mat(lmRet, "c0").stencilRef = 3
    /\ Mat(lmRet, "c1") = DefaultMat

\* C7: loadModel(path, false, refNum) returns the loaded node with no
\* material changed, for every refNum and both shapes.
C7_NoStencilNoMutation ==
    (lmPc = "returned" /\ ~lmArgs.needStencil) =>
        (lmRet = lmData /\ \A m \in DOMAIN lmRet.mats : lmRet.mats[m] = DefaultMat)

C7_Witness ==
    /\ lmPc = "returned" /\ ~lmArgs.needStencil
    /\ lmArgs.shape = "compound" /\ lmArgs.refNum = 5
    /\ lmRet = ParsedObject("compound", lmArgs.share)

\* C8: frame after frame of animateBackFace, direction is 1 or -4 and the last
\* triangle's z stays within [-8.5 - 4*19/300, 25 + 19/300] (z in 1/300).
C8_BackBounded ==
    /\ direction \in {1, -4}
    /\ Len(triangles) = 20
    /\ LastZ <= 25 * 300 + 19
    /\ 2 * LastZ >= (-17) * 300 - 2 * 4 * 19

C8_Witness ==
    /\ direction = -4
    /\ LastZ = 25 * 300 + 15
    /\ triangles[20].rz = 19 * 435

\* C9: under repeated frames direction becomes -4 and then 1 again, forever
\* alternating, and it changes to -4 only in a frame that leaves the last
\* triangle's z above 25 and to 1 only in one that leaves it below -8.5.
C9_DirectionAlternates ==
    /\ []<>(direction = -4)
    /\ []<>(direction = 1)
    /\ [][direction' # direction =>
             \/ direction' = -4 /\ LastZ' > 25 * 300
             \/ direction' = 1 /\ 2 * LastZ' < (-17) * 300]_vars

C9_Witness ==
    /\ direction = 1
    /\ 2 * LastZ < (-17) * 300
    /\ triangles[1].z = -750

BlocksChanged == {k \in 1..Len(blocks) : blocks'[k] # blocks[k]}

\* C10 as claimed: each invocation of animateLeftFace changes the transform
\* of exactly one block.
C10_ExactlyOneChanges == [][Cardinality(BlocksChanged) = 1]_vars

\* C10: each invocation of animateLeftFace changes the transform of at most
\* one of the 25 blocks, in its vertical position and scale only, and leaves
\* the others as they were.
C10_AtMostOneChanges ==
    [][/\ Len(blocks') = 25 /\ Len(blocks) = 25
       /\ Cardinality(BlocksChanged) <= 1
       /\ \A k \in 1..25 :
             blocks'[k] = [blocks[k] EXCEPT !.y = blocks'[k].y,
                                            !.scale3 = blocks'[k].scale3]]_vars

C10_Witness ==
    /\ calls = 1
    /\ blocks[25].y = -3 /\ blocks[25].scale3 = 9
    /\ \A k \in 1..24 : blocks[k] = LoadedBlocks[k]

\* C11: once any model load has rejected (the cube frame's or a face's),
\* render() is never invoked and no animator has run, no next frame is
\* pending, and the routine whose load rejected stays rejected and has no
\* further load resolve (nothing is retried).
C11_LoadRejectionHalts ==
    /\ [](RejectedLoads # {} =>
            /\ renders = 0 /\ animated = <<>> /\ ~raf
            /\ pc \in {"awaitAll", "rejected"})
    /\ [][\A f \in Faces :
            LoadRejection(f) \in uncaught =>
                faceSt'[f] = "rejected" /\ faceN'[f] = faceN[f]]_vars

\* the left face's fourth load rejected, the assembler's promise rejected,
\* the other five routines went on to their ends, and nothing was rendered
C11_Witness ==
    /\ globalsDefined
    /\ RejectedLoads = {"left"}
    /\ faceSt["left"] = "rejected" /\ faceN["left"] = 3 /\ Len(blocks) = 3
    /\ \A f \in Faces \ {"left"} : faceSt[f] = "done"
    /\ pc = "rejected"
    /\ renders = 0

\* a bar's coordinate on its group's travel axis, in 1/20: group 0 travels
\* toward +z, group 1 toward +y, group 2 toward -x
Travel(i, bar) == IF i = 1 THEN bar.z ELSE IF i = 2 THEN bar.y ELSE -bar.x

\* t, in 1/20, is one of the travel distances 10..24
IsTravelDist(t) == t % 20 = 0 /\ (t \div 20) \in 10..24

\* One frame took a bar's travel coordinate from t to tn as the claim says,
\* for some travel distance d in 10..24 and some speed in 0..9 twentieths:
\* either t had reached d and tn is -d, or t had not and tn is t + speed.
BarStepAsClaimed(t, tn) ==
    \/ IsTravelDist(-tn) /\ t >= -tn
    \/ t < 20 * 24 /\ (tn - t) \in 0..9

\* C12: in every animateRightFace frame every bar either is reset to its
\* travel distance d (10..24) on the opposite side, having reached d on its
\* travel axis, or advances by its speed (0 to 0.45 in steps of 0.05); and
\* the travel coordinate never exceeds 24.45 in magnitude.
C12_BarsTravelBounded ==
    /\ [][\A i \in 1..BarGroups : \A j \in 1..BarsPerGroup :
            BarStepAsClaimed(Travel(i, bars[i][j]), Travel(i, bars'[i][j]))]_vars
    /\ [](\A i \in 1..BarGroups : \A j \in 1..BarsPerGroup :
            /\ Travel(i, bars[i][j]) <= 489
            /\ Travel(i, bars[i][j]) >= -489)

\* every bar has travelled to 24 or beyond and was reset to 24 on the far
\* side of its axis: group 0 at z = -24, group 1 at y = -24, group 2 at x = 24
C12_Witness ==
    /\ \A i \in 1..BarGroups : \A j \in 1..BarsPerGroup :
          Travel(i, bars[i][j]) = -480
    /\ bars[1][1].z = -480 /\ bars[2][1].y = -480 /\ bars[3][1].x = 480
    /\ bars[1][1].scaleZ = 10 /\ bars[2][1].rotX = 1 /\ bars[3][1].rotY = 1

\* the loaded object o carries the stencil reference number ref on some
\* material and no other number than ref on any (0 is three.js's default)
CarriesOnly(o, ref) ==
    /\ \E m \in DOMAIN o.mats : o.mats[m].stencilRef = ref
    /\ \A m \in DOMAIN o.mats : o.mats[m].stencilRef \in {0, ref}

C14_TrianglesInLockstep ==
    /\ \A n \in 1..(Len(triangles) - 1) :
          BackPrefix(triangles, direction, 0, n).direction = direction
    /\ \A k \in 1..Len(triangles) :
          /\ (Len(triangles) - 1) * (triangles[k].z + 750) = (k - 1) * (LastZ + 750)
          /\ triangles[k].rz = triangles[k].z + 750
    /\ triangles[1].z = -750 /\ triangles[1].rz = 0

\* on the way down, past the start: every triangle but the first is below
\* -2.5, in proportion to its index
C14_Witness ==
    /\ direction = -4
    /\ LastZ < -750
    /\ triangles[2].z < -750
    /\ triangles[11].z + 750 = 10 * (triangles[2].z + 750)
====
